---- MODULE Spec2Model ----
(***************************************************************************)
(* rest_tools: the server's ArgumentHandler (server/arghandler.py).        *)
(*                                                                         *)
(* A handler is built for one request and one argument source.  Arguments  *)
(* are registered with add_argument, which hands them to an                *)
(* argparse.ArgumentParser(exit_on_error=False); parse_args turns the      *)
(* request into a list of argument strings ("--key", value, ...), lets     *)
(* argparse parse it, and translates argparse's failure (a SystemExit with *)
(* what it wrote to stderr, or an ArgumentError) into an HTTP 400 message  *)
(* by matching regular expressions against the text.                       *)
(*                                                                         *)
(* Text is modelled as a sequence of atoms.  An atom is one character,     *)
(* except for the fixed phrases of argparse and of the handler, which are  *)
(* kept whole ("unrecognized arguments:").  Python values are records      *)
(* [t |-> type tag, v |-> payload]; the payload of a str, an int or a      *)
(* float is its text, the payload of a list the sequence of its elements.  *)
(***************************************************************************)
EXTENDS Integers, Sequences, FiniteSets, TLC

(***************************************************************************)
(* Text helpers (Python's str methods, as the code uses them).             *)
(***************************************************************************)

\* str.startswith
StartsWith(s, p) == Len(p) <= Len(s) /\ SubSeq(s, 1, Len(p)) = p

\* `c in s` for a one-character c
Contains(s, c) == \E i \in 1..Len(s) : s[i] = c

\* s[i:] with i counted from 1
Drop(s, i) == SubSeq(s, i, Len(s))

\* str.replace(old, new): leftmost, non-overlapping occurrences
RECURSIVE Replace(_, _, _)
Replace(s, old, new) ==
    IF s = <<>> THEN <<>>
    ELSE IF StartsWith(s, old) THEN new \o Replace(Drop(s, Len(old) + 1), old, new)
    ELSE <<Head(s)>> \o Replace(Tail(s), old, new)

\* sep.join(parts)
RECURSIVE Join(_, _)
Join(parts, sep) ==
    IF parts = <<>> THEN <<>>
    ELSE IF Len(parts) = 1 THEN parts[1]
    ELSE parts[1] \o sep \o Join(Tail(parts), sep)

\* str.split(): the maximal runs of non-blank characters
RECURSIVE SplitFrom(_, _)
SplitFrom(s, word) ==
    IF s = <<>> THEN (IF word = <<>> THEN <<>> ELSE <<word>>)
    ELSE IF Head(s) = " "
         THEN (IF word = <<>> THEN <<>> ELSE <<word>>) \o SplitFrom(Tail(s), <<>>)
         ELSE SplitFrom(Tail(s), Append(word, Head(s)))

Split(s) == SplitFrom(s, <<>>)

Range(s) == { s[i] : i \in 1..Len(s) }

Digits == {"0", "1", "2", "3", "4", "5", "6", "7", "8", "9"}

\* -?[0-9]+ : the int literals of the model's vocabulary
IsIntLiteral(s) ==
    LET body == IF s # <<>> /\ Head(s) = "-" THEN Tail(s) ELSE s
    IN  body # <<>> /\ \A i \in 1..Len(body) : body[i] \in Digits

(***************************************************************************)
(* Python values.                                                          *)
(***************************************************************************)

PyStr(s)    == [t |-> "str",   v |-> s]
PyInt(s)    == [t |-> "int",   v |-> s]
PyFloat(s)  == [t |-> "float", v |-> s]
PyBool(b)   == [t |-> "bool",  v |-> IF b THEN <<"True">> ELSE <<"False">>]
PyNone      == [t |-> "None",  v |-> <<>>]
PyList(xs)  == [t |-> "list",  v |-> xs]

\* A call's result: the value it returns, or the exception it raises.
Returns(x) == [exc |-> "none", val |-> x]
Raises(e)  == [exc |-> e, val |-> PyNone]

Upper == <<"A", "B", "C", "D", "E", "F", "G", "H", "I", "J", "K", "L", "M",
           "N", "O", "P", "Q", "R", "S", "T", "U", "V", "W", "X", "Y", "Z">>
Lowercase == <<"a", "b", "c", "d", "e", "f", "g", "h", "i", "j", "k", "l", "m",
               "n", "o", "p", "q", "r", "s", "t", "u", "v", "w", "x", "y", "z">>

\* str.lower()
LowerChar(c) ==
    IF c \in Range(Upper) THEN Lowercase[CHOOSE i \in 1..26 : Upper[i] = c] ELSE c

Lower(s) == [i \in 1..Len(s) |-> LowerChar(s[i])]

\* repr(str): single quotes, unless the text holds a ' and no "
Repr(s) ==
    IF Contains(s, "'") /\ ~Contains(s, "\"")
    THEN <<"\"">> \o s \o <<"\"">>
    ELSE <<"'">> \o s \o <<"'">>

(***************************************************************************)
(* json.dumps and json.loads on the values of the vocabulary: strings      *)
(* without quotes or backslashes, integers, floats, booleans, null and     *)
(* lists.                                                                  *)
(***************************************************************************)

RECURSIVE json_dumps(_)
json_dumps(x) ==
    CASE x.t = "str"   -> <<"\"">> \o x.v \o <<"\"">>
      [] x.t = "int"   -> x.v
      [] x.t = "float" -> x.v
      [] x.t = "bool"  -> IF x = PyBool(TRUE) THEN <<"t", "r", "u", "e">>
                          ELSE <<"f", "a", "l", "s", "e">>
      [] x.t = "None"  -> <<"n", "u", "l", "l">>
      [] x.t = "list"  ->
            <<"[">> \o Join([i \in 1..Len(x.v) |-> json_dumps(x.v[i])], <<",", " ">>)
                    \o <<"]">>

\* JSON's number grammar: no leading zeros, no bare "-"
IsJsonInt(s) ==
    LET body == IF s # <<>> /\ Head(s) = "-" THEN Tail(s) ELSE s
    IN  /\ IsIntLiteral(s)
        /\ (Len(body) > 1 => Head(body) # "0")

IsJsonFraction(s) ==
    \E k \in 2..(Len(s) - 1) :
        /\ s[k] = "."
        /\ IsJsonInt(SubSeq(s, 1, k - 1))
        /\ \A i \in (k + 1)..Len(s) : s[i] \in Digits

\* a number with a fraction, or with an exponent (1e-07)
IsJsonFloat(s) ==
    \/ IsJsonFraction(s)
    \/ \E k \in 2..(Len(s) - 2) :
          /\ s[k] = "e"
          /\ IsJsonInt(SubSeq(s, 1, k - 1)) \/ IsJsonFraction(SubSeq(s, 1, k - 1))
          /\ s[k + 1] \in {"-", "+"}
          /\ \A i \in (k + 2)..Len(s) : s[i] \in Digits

\* str.strip() of blanks
RECURSIVE Strip(_)
Strip(s) ==
    IF s # <<>> /\ Head(s) = " " THEN Strip(Tail(s))
    ELSE IF s # <<>> /\ s[Len(s)] = " " THEN Strip(SubSeq(s, 1, Len(s) - 1))
    ELSE s

\* the pieces of s between the commas
RECURSIVE SplitComma(_, _)
SplitComma(s, piece) ==
    IF s = <<>> THEN <<piece>>
    ELSE IF Head(s) = "," THEN <<piece>> \o SplitComma(Tail(s), <<>>)
    ELSE SplitComma(Tail(s), Append(piece, Head(s)))

\* json.loads of a scalar that has no blanks around it
json_loads_scalar(s) ==
    IF s = <<"n", "u", "l", "l">> THEN Returns(PyNone)
    ELSE IF s = <<"t", "r", "u", "e">> THEN Returns(PyBool(TRUE))
    ELSE IF s = <<"f", "a", "l", "s", "e">> THEN Returns(PyBool(FALSE))
    ELSE IF IsJsonInt(s) THEN Returns(PyInt(s))
    ELSE IF IsJsonFloat(s) THEN Returns(PyFloat(s))
    ELSE IF /\ Len(s) >= 2 /\ s[1] = "\"" /\ s[Len(s)] = "\""
            /\ ~Contains(SubSeq(s, 2, Len(s) - 1), "\"")
            /\ ~Contains(SubSeq(s, 2, Len(s) - 1), "\\")
         THEN Returns(PyStr(SubSeq(s, 2, Len(s) - 1)))
    ELSE Raises("JSONDecodeError")

\* the list of the elements decoded, when every one of them decoded
json_list(elems) ==
    IF \A i \in 1..Len(elems) : elems[i].exc = "none"
    THEN Returns(PyList([i \in 1..Len(elems) |-> elems[i].val]))
    ELSE Raises("JSONDecodeError")

\* the texts of a list's elements
json_list_parts(inner) ==
    IF Strip(inner) = <<>> THEN <<>>
    ELSE [i \in 1..Len(SplitComma(inner, <<>>)) |-> Strip(SplitComma(inner, <<>>)[i])]

\* json.loads of a text without blanks around it: a scalar, or a list of scalars
json_loads_stripped(s) ==
    IF Len(s) >= 2 /\ s[1] = "[" /\ s[Len(s)] = "]"
    THEN json_list([i \in 1..Len(json_list_parts(SubSeq(s, 2, Len(s) - 1))) |->
                      json_loads_scalar(json_list_parts(SubSeq(s, 2, Len(s) - 1))[i])])
    ELSE json_loads_scalar(s)

json_loads(s) == json_loads_stripped(Strip(s))

\* the value decoded, or the text when decoding raised
ValueOrText(r, val) == IF r.exc = "none" THEN r.val ELSE PyStr(val)

\* add_argument's safe_json_loads: the value, or the text as it came
safe_json_loads(val) == ValueOrText(json_loads(val), val)

(***************************************************************************)
(* The type callables an argument can be registered with.                  *)
(***************************************************************************)

\* int(x)
py_int(x) ==
    CASE x.t = "str"   -> IF IsIntLiteral(x.v) THEN Returns(PyInt(x.v))
                          ELSE Raises("ValueError")
      [] x.t = "int"   -> Returns(x)
      [] x.t = "bool"  -> Returns(PyInt(IF x = PyBool(TRUE) THEN <<"1">> ELSE <<"0">>))
      [] x.t = "float" -> Returns(PyInt(SubSeq(x.v, 1,
                              (CHOOSE k \in 1..Len(x.v) : x.v[k] = ".") - 1)))
      [] OTHER         -> Raises("TypeError")

\* repr(x)
RECURSIVE py_repr(_)
py_repr(x) ==
    CASE x.t = "str"  -> Repr(x.v)
      [] x.t = "None" -> <<"N", "o", "n", "e">>
      [] x.t = "bool" -> IF x = PyBool(TRUE) THEN <<"T", "r", "u", "e">>
                         ELSE <<"F", "a", "l", "s", "e">>
      [] x.t = "list" ->
            <<"[">> \o Join([i \in 1..Len(x.v) |-> py_repr(x.v[i])], <<",", " ">>)
                    \o <<"]">>
      [] OTHER        -> x.v

\* str(x)
py_str(x) == IF x.t = "str" THEN x ELSE PyStr(py_repr(x))

TrueStrings ==
    { <<"y">>, <<"y", "e", "s">>, <<"t">>, <<"t", "r", "u", "e">>, <<"o", "n">>, <<"1">> }

FalseStrings ==
    { <<"n">>, <<"n", "o">>, <<"f">>, <<"f", "a", "l", "s", "e">>, <<"o", "f", "f">>,
      <<"0">> }

\* a coercion that knows only the false values and takes every other value,
\* a string or not, for true: what strtobool is not
FalsyStrings == { <<"f", "a", "l", "s", "e">>, <<"0">>, <<"n", "o">>, <<>> }

truthy(x, nonstr) ==
    Returns(PyBool(~(\/ x.t = "None"
                     \/ x.t = "bool" /\ x.v = FALSE
                     \/ x.t = "int" /\ x.v = <<"0">>
                     \/ x.t = "str" /\ Lower(x.v) \in FalsyStrings)))

\* wipac_dev_tools.strtobool, which add_argument puts in the place of bool.
\* It lower-cases a string and looks it up; a value that is no string has
\* no lower(): nonstr is the exception that call ends in.
strtobool(x, nonstr) ==
    IF x.t # "str" THEN Raises(nonstr)
    ELSE IF Lower(x.v) \in TrueStrings THEN Returns(PyBool(TRUE))
    ELSE IF Lower(x.v) \in FalseStrings THEN Returns(PyBool(FALSE))
    ELSE Raises("ValueError")

\* the tests' custom_type, which raises ValueError for every value
custom_type(x) == Raises("ValueError")

\* A registered type is [json |-> wrapped in safe_json_loads, typ |-> callable];
\* NoType is argparse's type=None.
NoType == [json |-> FALSE, typ |-> "None"]

\* the callable typ on the value x
CallTyp(typ, x, nonstr) ==
    CASE typ = "int"          -> py_int(x)
      [] typ = "str"          -> Returns(py_str(x))
      [] typ = "strtobool"    -> strtobool(x, nonstr)
      [] typ = "custom_type"  -> custom_type(x)
      [] OTHER                -> Returns(x)

\* type_func(arg_string): for the JSON source, typ(safe_json_loads(arg_string))
CallType(type, arg_string, nonstr) ==
    CallTyp(type.typ,
            IF type.json THEN safe_json_loads(arg_string) ELSE PyStr(arg_string),
            nonstr)

\* getattr(type_func, '__name__', repr(type_func))
TypeName(type) ==
    IF type.json THEN (IF type.typ = "None" THEN "safe_json_loads" ELSE "<lambda>")
    ELSE type.typ

(***************************************************************************)
(* argparse.ArgumentParser(exit_on_error=False), as the handler uses it:   *)
(* optional arguments only, the help action the constructor adds, store    *)
(* actions with nargs None or '*', prefix matching of long options         *)
(* (allow_abbrev).  The vocabulary holds no "=" and no "--" argument.      *)
(* A parser is the sequence of its actions.                                *)
(***************************************************************************)

Flag(name) == <<"-", "-">> \o name

\* choices=None, and choices=[...]
NoChoices   == [given |-> FALSE, of |-> <<>>]
Choices(xs) == [given |-> TRUE, of |-> xs]

HelpAction ==
    [kind |-> "help", option_strings |-> << <<"-", "h">>, Flag(<<"h", "e", "l", "p">>) >>,
     dest |-> <<"h", "e", "l", "p">>, nargs |-> "0", default |-> PyNone,
     type |-> NoType, required |-> FALSE, choices |-> NoChoices]

\* ArgumentParser.__init__ (add_help=True)
NewParser == <<HelpAction>>

\* the keys of _option_string_actions
OptionStringsOf(parser) ==
    UNION { Range(parser[a].option_strings) : a \in 1..Len(parser) }

ActionOf(parser, option_string) ==
    CHOOSE a \in 1..Len(parser) : option_string \in Range(parser[a].option_strings)

\* _get_action_name
ActionName(action) == Join(action.option_strings, <<"/">>)

\* _negative_number_matcher: '^-\d+$|^-\d*\.\d+$'
IsNegativeNumber(s) ==
    /\ Len(s) >= 2
    /\ s[1] = "-"
    /\ \/ \A i \in 2..Len(s) : s[i] \in Digits
       \/ \E k \in 2..(Len(s) - 1) :
             /\ s[k] = "."
             /\ \A i \in 2..Len(s) : i # k => s[i] \in Digits

\* _get_option_tuples: the option strings arg_string abbreviates, in the
\* order they were registered
OptionMatches(parser, arg_string) ==
    LET all == [a \in 1..Len(parser) |->
                  IF arg_string[2] = "-"
                  THEN SelectSeq(parser[a].option_strings,
                                 LAMBDA o : StartsWith(o, arg_string))
                  ELSE SelectSeq(parser[a].option_strings,
                                 LAMBDA o : o = SubSeq(arg_string, 1, 2)
                                            \/ StartsWith(o, arg_string))]
    IN  Join(all, <<>>)

\* _parse_optional: "A" for an argument, "O" for an option string (act = 0
\* when no action takes it), "ambiguous" when several options match
parse_optional(parser, arg_string) ==
    IF arg_string = <<>> THEN [kind |-> "A", act |-> 0, matches |-> <<>>]
    ELSE IF arg_string[1] # "-" THEN [kind |-> "A", act |-> 0, matches |-> <<>>]
    ELSE IF arg_string \in OptionStringsOf(parser)
         THEN [kind |-> "O", act |-> ActionOf(parser, arg_string), matches |-> <<>>]
    ELSE IF Len(arg_string) = 1 THEN [kind |-> "A", act |-> 0, matches |-> <<>>]
    ELSE LET m == OptionMatches(parser, arg_string) IN
         IF Len(m) > 1 THEN [kind |-> "ambiguous", act |-> 0, matches |-> m]
         ELSE IF Len(m) = 1
              THEN [kind |-> "O", act |-> ActionOf(parser, m[1]), matches |-> m]
         ELSE IF IsNegativeNumber(arg_string)
              THEN [kind |-> "A", act |-> 0, matches |-> <<>>]
         ELSE IF Contains(arg_string, " ")
              THEN [kind |-> "A", act |-> 0, matches |-> <<>>]
         ELSE [kind |-> "O", act |-> 0, matches |-> <<>>]

\* A failure inside argparse: the exception and its text (what
\* ArgumentParser.error wrote to stderr, or str() of the ArgumentError).
Failure(exc, text) == [exc |-> exc, text |-> text]

\* ArgumentParser.error: usage and message on stderr, then exit status 2
ParserError(message) ==
    Failure("SystemExit",
            <<"usage: ...", "\n", "prog", ":", " ", "error:", " ">> \o message
            \o <<"\n">>)

\* the help action: the help on stdout, nothing on stderr, exit status 0
HelpExit == Failure("SystemExit", <<>>)

\* ArgumentError(action, message), with its str()
ArgumentError(action, message) ==
    Failure("ArgumentError",
            <<"argument", " ">> \o ActionName(action) \o <<":", " ">> \o message)

\* _get_value, given what the type callable ended in: ValueError and
\* TypeError become an ArgumentError, any other exception passes through
ValueOrError(action, arg_string, r) ==
    IF r.exc = "none" THEN [exc |-> "none", val |-> r.val]
    ELSE IF r.exc \in {"ValueError", "TypeError"}
         THEN ArgumentError(action,
                  <<"invalid", " ", TypeName(action.type), " ", "value:", " ">>
                  \o Repr(arg_string))
    ELSE Failure(r.exc, <<>>)

\* _get_value
get_value(action, arg_string, nonstr) ==
    ValueOrError(action, arg_string, CallType(action.type, arg_string, nonstr))

\* the number a value is equal to as Python compares: True is 1, False is
\* 0, and a float that ends in .0 is the int before the point
AsNumber(x) ==
    IF x.t = "bool" THEN PyInt(IF x.v THEN <<"1">> ELSE <<"0">>)
    ELSE IF x.t = "float" /\ Len(x.v) > 2
            /\ SubSeq(x.v, Len(x.v) - 1, Len(x.v)) = <<".", "0">>
         THEN PyInt(SubSeq(x.v, 1, Len(x.v) - 2))
    ELSE x

\* _check_value refuses a converted value that is none of the choices
NotAChoice(action, val) ==
    /\ action.choices.given
    /\ \A i \in 1..Len(action.choices.of) : AsNumber(action.choices.of[i]) # AsNumber(val)

\* the ArgumentError of _check_value
InvalidChoice(action, val) ==
    ArgumentError(action,
        <<"invalid", " ", "choice:", " ">> \o py_repr(val)
        \o <<" ", "(choose from", " ">>
        \o Join([i \in 1..Len(action.choices.of) |-> py_repr(action.choices.of[i])],
                <<",", " ">>)
        \o <<")">>)

\* the first failure among the conversions, else the first value that is
\* none of the choices, else the value (nargs None) or the list of the
\* values (nargs '*')
FirstErrorOrValues(action, rs) ==
    IF \E i \in 1..Len(rs) : rs[i].exc # "none"
    THEN rs[CHOOSE i \in 1..Len(rs) :
               /\ rs[i].exc # "none"
               /\ \A j \in 1..(i - 1) : rs[j].exc = "none"]
    ELSE IF \E i \in 1..Len(rs) : NotAChoice(action, rs[i].val)
    THEN InvalidChoice(action,
             rs[CHOOSE i \in 1..Len(rs) :
                   /\ NotAChoice(action, rs[i].val)
                   /\ \A j \in 1..(i - 1) : ~NotAChoice(action, rs[j].val)].val)
    ELSE IF action.nargs = "None" THEN rs[1]
    ELSE [exc |-> "none", val |-> PyList([i \in 1..Len(rs) |-> rs[i].val])]

\* _get_values for an optional
get_values(action, arg_strings, nonstr) ==
    FirstErrorOrValues(action,
        [i \in 1..Len(arg_strings) |-> get_value(action, arg_strings[i], nonstr)])

\* _match_argument: how many of the strings from index i on the action
\* takes; -1 when nargs None finds no argument there
match_argument(action, tuples, i) ==
    CASE action.nargs = "0" -> 0
      [] action.nargs = "None" ->
            IF i <= Len(tuples) /\ tuples[i].kind = "A" THEN 1 ELSE -1
      [] OTHER ->
            LET stop == { j \in i..Len(tuples) : tuples[j].kind # "A" }
            IN  IF stop = {} THEN Len(tuples) - i + 1
                ELSE (CHOOSE j \in stop : \A k \in stop : j <= k) - i

\* take_action: the action's values stored in the namespace, or the
\* failure of their conversion
take_action(act, action, i, count, vals, ns, seen, extras) ==
    IF vals.exc # "none" THEN vals
    ELSE [exc |-> "none", i |-> i + 1 + count,
          ns |-> [ns EXCEPT ![action.dest] = vals.val],
          seen |-> seen \cup {act}, extras |-> extras]

\* consume_optional at the option string i, which action takes with count
\* arguments
consume_optional(act, action, arg_strings, i, count, ns, seen, extras, nonstr) ==
    IF count < 0 THEN ArgumentError(action, <<"expected one argument">>)
    ELSE IF action.kind = "help" THEN HelpExit
    ELSE take_action(act, action, i, count,
                     get_values(action, SubSeq(arg_strings, i + 1, i + count), nonstr),
                     ns, seen, extras)

\* one round of the loop of _parse_known_args, at the argument string i:
\* an option string of an action is consumed, anything else is an extra
consume_step(parser, arg_strings, tuples, i, ns, seen, extras, nonstr) ==
    IF tuples[i].kind = "A" \/ tuples[i].act = 0
    THEN [exc |-> "none", i |-> i + 1, ns |-> ns, seen |-> seen,
          extras |-> Append(extras, arg_strings[i])]
    ELSE consume_optional(tuples[i].act, parser[tuples[i].act], arg_strings, i,
                          match_argument(parser[tuples[i].act], tuples, i + 1),
                          ns, seen, extras, nonstr)

\* the loop of _parse_known_args over the argument strings
RECURSIVE consume(_, _, _, _, _)
RECURSIVE consume_from(_, _, _, _, _, _, _, _)
consume(parser, arg_strings, tuples, st, nonstr) ==
    IF st.exc # "none" THEN st
    ELSE consume_from(parser, arg_strings, tuples, st.i, st.ns, st.seen, st.extras, nonstr)

consume_from(parser, arg_strings, tuples, i, ns, seen, extras, nonstr) ==
    IF i > Len(arg_strings)
    THEN [exc |-> "none", ns |-> ns, seen |-> seen, extras |-> extras]
    ELSE consume(parser, arg_strings, tuples,
                 consume_step(parser, arg_strings, tuples, i, ns, seen, extras, nonstr),
                 nonstr)

\* the end of _parse_known_args: an action not seen is required, or has
\* its default converted when the default is a string
RECURSIVE finish(_, _, _, _, _, _)
RECURSIVE finish_default(_, _, _, _, _, _, _)
finish(parser, a, ns, seen, required_actions, nonstr) ==
    IF a > Len(parser)
    THEN [exc |-> "none", ns |-> ns, required_actions |-> required_actions]
    ELSE IF a \in seen THEN finish(parser, a + 1, ns, seen, required_actions, nonstr)
    ELSE IF parser[a].required
         THEN finish(parser, a + 1, ns, seen,
                     Append(required_actions, ActionName(parser[a])), nonstr)
    ELSE IF parser[a].kind = "store" /\ parser[a].default.t = "str"
         THEN finish_default(parser, a, ns, seen, required_actions, nonstr,
                             get_value(parser[a], parser[a].default.v, nonstr))
    ELSE finish(parser, a + 1, ns, seen, required_actions, nonstr)

\* the default of action a, converted to r, put in the namespace
finish_default(parser, a, ns, seen, required_actions, nonstr, r) ==
    IF r.exc # "none" THEN r
    ELSE finish(parser, a + 1, [ns EXCEPT ![parser[a].dest] = r.val], seen,
                required_actions, nonstr)

\* the namespace before parsing: every action's default
DefaultNamespace(parser) ==
    [d \in { parser[a].dest : a \in { b \in 1..Len(parser) : parser[b].kind = "store" } }
       |-> parser[CHOOSE a \in 1..Len(parser) :
                     parser[a].kind = "store" /\ parser[a].dest = d].default]

\* the end of parse_args: required arguments missing, then extras, are errors
parse_result(f, extras) ==
    IF f.exc # "none" THEN f
    ELSE IF f.required_actions # <<>>
         THEN ParserError(<<"the following arguments are required:", " ">>
                          \o Join(f.required_actions, <<",", " ">>))
    ELSE IF extras # <<>>
         THEN ParserError(<<"unrecognized arguments:", " ">> \o Join(extras, <<" ">>))
    ELSE [exc |-> "none", ns |-> f.ns]

\* after the loop: the check of the required arguments and of the extras
parse_consumed(parser, c, nonstr) ==
    IF c.exc # "none" THEN c
    ELSE parse_result(finish(parser, 1, c.ns, c.seen, <<>>, nonstr), c.extras)

\* _parse_known_args, given what _parse_optional made of every string: the
\* first ambiguous option string is an error before anything is consumed
parse_known_args(parser, arg_strings, tuples, nonstr) ==
    IF \E i \in 1..Len(tuples) : tuples[i].kind = "ambiguous"
    THEN ParserError(
             <<"ambiguous option:", " ">>
             \o arg_strings[CHOOSE i \in 1..Len(tuples) :
                               /\ tuples[i].kind = "ambiguous"
                               /\ \A j \in 1..(i - 1) : tuples[j].kind # "ambiguous"]
             \o <<" ", "could match", " ">>
             \o Join(tuples[CHOOSE i \in 1..Len(tuples) :
                               /\ tuples[i].kind = "ambiguous"
                               /\ \A j \in 1..(i - 1) : tuples[j].kind # "ambiguous"].matches,
                     <<",", " ">>))
    ELSE parse_consumed(parser,
             consume_from(parser, arg_strings, tuples, 1, DefaultNamespace(parser),
                          {}, <<>>, nonstr),
             nonstr)

\* ArgumentParser.parse_args(args=arg_strings): the namespace, or a failure
argparse_parse_args(parser, arg_strings, nonstr) ==
    parse_known_args(parser, arg_strings,
        [i \in 1..Len(arg_strings) |-> parse_optional(parser, arg_strings[i])], nonstr)

(***************************************************************************)
(* The request, as the handler reads it.                                   *)
(*   arguments: tornado's request.arguments, a dict from key to the list   *)
(*     of the key's byte strings, in first-seen order of the keys; the     *)
(*     atom "\\xff" stands for a byte that is not valid UTF-8.             *)
(*   body: the request's body, by what json.loads makes of its bytes:      *)
(*     "invalid_utf8", "not_json", or "json" with the value decoded; a     *)
(*     JSON object is [t |-> "dict", v |-> its (key, value) items].        *)
(***************************************************************************)

VARIABLES
    argument_source,   \* ArgumentHandler.argument_source
    request,           \* ArgumentHandler.rest_handler.request
    argparser,         \* ArgumentHandler._argparser: the actions registered
    call,              \* the last call on the handler, with its arguments
    outcome            \* how that call ended

\* a RestClient, or OpenIDRestClient, and what its last call did
VARIABLES
    cls,               \* the client's class: RestClient or OpenIDRestClient
    token,             \* RestClient.token
    sessions,          \* the session objects made so far, by identity
    session,           \* RestClient.session: the identity of a session
    access_token,      \* OpenIDRestClient.access_token
    refresh_token,     \* OpenIDRestClient.refresh_token
    last               \* the last call on the client: what it sent, how it ended

handler == <<argument_source, request, argparser, call, outcome>>
client  == <<cls, token, sessions, session, access_token, refresh_token, last>>
vars    == <<handler, client>>

\* a call on the client: which one, how it ended, what auth.validate said
\* ("skipped" when it was not asked), the POSTs to the token endpoint and
\* the answer to the last of them, and the requests sent to the server
NoCall ==
    [op |-> "none", result |-> "none", validated |-> "skipped", posts |-> 0,
     post |-> [kind |-> "none"], sent |-> <<>>]

\* the state of the client variables where no client was constructed
NoClient ==
    /\ cls = "none"
    /\ token = PyNone
    /\ sessions = <<>>
    /\ session = 0
    /\ access_token = PyNone
    /\ refresh_token = PyNone
    /\ last = NoCall

QUERY_ARGUMENTS     == "QUERY_ARGUMENTS"
JSON_BODY_ARGUMENTS == "JSON_BODY_ARGUMENTS"

PyDict(items) == [t |-> "dict", v |-> items]

\* tornado.escape.to_unicode: the bytes decoded as UTF-8
to_unicode(v) ==
    IF Contains(v, "\\xff") THEN Raises("UnicodeDecodeError") ELSE Returns(PyStr(v))

\* json.loads(request.body): bytes that are no UTF-8 raise UnicodeDecodeError,
\* which is a ValueError but no JSONDecodeError
json_loads_body(body) ==
    CASE body.kind = "invalid_utf8" -> Raises("UnicodeDecodeError")
      [] body.kind = "not_json"     -> Raises("JSONDecodeError")
      [] OTHER                      -> Returns(body.value)

(***************************************************************************)
(* How a call on the handler ends.                                         *)
(***************************************************************************)

NoOutcome == [call |-> "none", kind |-> "none", status_code |-> 0, reason |-> <<>>,
              ns |-> <<>>]

\* add_argument returned
Registered == [NoOutcome EXCEPT !.call = "add_argument", !.kind = "returned"]

\* a call left by an exception that is no tornado.web.HTTPError
Raised(op, exc) == [NoOutcome EXCEPT !.call = op, !.kind = exc]

\* raise tornado.web.HTTPError(status_code, reason=reason)
HTTPError(status_code, reason) ==
    [NoOutcome EXCEPT !.call = "parse_args", !.kind = "HTTPError",
                      !.status_code = status_code, !.reason = reason]

\* parse_args returned the namespace
Namespace(ns) == [NoOutcome EXCEPT !.call = "parse_args", !.kind = "Namespace", !.ns = ns]

(***************************************************************************)
(* ArgumentHandler.add_argument(name, **kwargs).  kwargs is a record with  *)
(* any of the keys default, required, type and nargs; type names the       *)
(* callable ("int", "str", "bool", "custom_type").                         *)
(***************************************************************************)

Has(kwargs, key) == key \in DOMAIN kwargs

\* lines 103-110: bool becomes strtobool; the JSON source wraps the type
AddArgumentType(source, kwargs) ==
    LET typ == IF Has(kwargs, "type")
               THEN (IF kwargs.type = "bool" THEN "strtobool" ELSE kwargs.type)
               ELSE "None"
    IN  IF source = JSON_BODY_ARGUMENTS THEN [json |-> TRUE, typ |-> typ]
        ELSE [json |-> FALSE, typ |-> typ]

\* a registration that refuses nothing
NothingRefused(kwargs) == FALSE

\* lines 112-119: no default and required=False is refused
AddArgumentRefused(kwargs) ==
    ~Has(kwargs, "default") /\ Has(kwargs, "required") /\ ~kwargs.required

\* lines 112-115: no default and no required means required
AddArgumentRequired(kwargs) ==
    IF ~Has(kwargs, "default") /\ ~Has(kwargs, "required") THEN TRUE
    ELSE IF Has(kwargs, "required") THEN kwargs.required
    ELSE FALSE

\* the store action argparse's add_argument builds from f"--{name}" and kwargs
StoreAction(source, name, kwargs) ==
    [kind |-> "store", option_strings |-> <<Flag(name)>>, dest |-> name,
     nargs |-> IF Has(kwargs, "nargs") THEN kwargs.nargs ELSE "None",
     default |-> IF Has(kwargs, "default") THEN kwargs.default ELSE PyNone,
     type |-> AddArgumentType(source, kwargs),
     required |-> AddArgumentRequired(kwargs),
     choices |-> IF Has(kwargs, "choices") THEN Choices(kwargs.choices) ELSE NoChoices]

\* argparse refuses an option string that some action already has
Conflicts(parser, name) == Flag(name) \in OptionStringsOf(parser)

AddArgument(name, kwargs) ==
    /\ call' = [op |-> "add_argument", name |-> name, kwargs |-> kwargs]
    /\ IF AddArgumentRefused(kwargs)
       THEN /\ outcome' = Raised("add_argument", "ValueError")
            /\ UNCHANGED argparser
       ELSE IF Conflicts(argparser, name)
       THEN /\ outcome' = Raised("add_argument", "ArgumentError")
            /\ UNCHANGED argparser
       ELSE /\ argparser' = Append(argparser, StoreAction(argument_source, name, kwargs))
            /\ outcome' = Registered
    /\ UNCHANGED <<argument_source, request>>
    /\ UNCHANGED client

(***************************************************************************)
(* ArgumentHandler._translate_error: the three regular expressions, on the *)
(* text argparse produced.                                                 *)
(***************************************************************************)

\* the index of the last atom of the line that holds index i
LineEnd(text, i) ==
    LET nl == { j \in i..Len(text) : text[j] = "\n" }
    IN  IF nl = {} THEN Len(text) ELSE (CHOOSE j \in nl : \A k \in nl : j <= k) - 1

\* the first index in hits
First(hits) == CHOOSE i \in hits : \A j \in hits : i <= j

\* where ARGUMENTS_REQUIRED_PATTERN matches:
\* r".+: error: (the following arguments are required: .+)"
ArgumentsRequiredHits(text) ==
    { i \in 6..Len(text) :
        /\ text[i] = "the following arguments are required:"
        /\ SubSeq(text, i - 4, i - 1) = <<":", " ", "error:", " ">>
        /\ text[i - 5] # "\n"
        /\ i + 2 <= LineEnd(text, i)
        /\ text[i + 1] = " " }

\* ARGUMENTS_REQUIRED_PATTERN.search: group(1), or <<>> for no match
ArgumentsRequiredMatch(text) ==
    IF ArgumentsRequiredHits(text) = {} THEN <<>>
    ELSE SubSeq(text, First(ArgumentsRequiredHits(text)),
                LineEnd(text, First(ArgumentsRequiredHits(text))))

\* where UNRECOGNIZED_ARGUMENTS_PATTERN matches:
\* r".+ error: (unrecognized arguments:) (.+)"
UnrecognizedArgumentsHits(text) ==
    { i \in 5..Len(text) :
        /\ text[i] = "unrecognized arguments:"
        /\ SubSeq(text, i - 3, i - 1) = <<" ", "error:", " ">>
        /\ text[i - 4] # "\n"
        /\ i + 2 <= LineEnd(text, i)
        /\ text[i + 1] = " " }

\* UNRECOGNIZED_ARGUMENTS_PATTERN.search: group(2), or <<>> for no match
UnrecognizedArgumentsMatch(text) ==
    IF UnrecognizedArgumentsHits(text) = {} THEN <<>>
    ELSE SubSeq(text, First(UnrecognizedArgumentsHits(text)) + 2,
                LineEnd(text, First(UnrecognizedArgumentsHits(text))))

\* where the "invalid" of INVALID_VALUE_PATTERN matches:
\* r"(argument .+: invalid) .+ value: '.+'"
InvalidValueHits(text) ==
    { p \in 5..Len(text) :
        /\ text[p] = "invalid"
        /\ SubSeq(text, p - 2, p - 1) = <<":", " ">>
        /\ \E a \in 1..(p - 5) : SubSeq(text, a, a + 1) = <<"argument", " ">>
        /\ \E q \in (p + 4)..(Len(text) - 4) :
              /\ text[p + 1] = " "
              /\ SubSeq(text, q - 1, q + 2) = <<" ", "value:", " ", "'">>
              /\ \E r \in (q + 4)..Len(text) : text[r] = "'" }

\* INVALID_VALUE_PATTERN.search: group(1), or <<>> for no match
InvalidValueMatch(text) ==
    IF InvalidValueHits(text) = {} THEN <<>>
    ELSE SubSeq(text,
                First({ a \in 1..(Len(text) - 1) : SubSeq(text, a, a + 1) = <<"argument", " ">> }),
                CHOOSE p \in InvalidValueHits(text) :
                    \A j \in InvalidValueHits(text) : j <= p)

\* a fall-through message that carries the text of the failure
LeakingError(ts) == <<"Unknown argument-handling error (", ts, ")", " ", "expected one argument">>

\* the fall-through message, with the time.time() it logs
UnknownError(ts) == <<"Unknown argument-handling error (", ts, ")">>

\* lines 154-159: the words of group(2) that start with "--", without it
UnrecognizedMessage(group2) ==
    <<"unrecognized arguments:", " ">>
    \o Join([i \in 1..Len(SelectSeq(Split(group2), LAMBDA k : StartsWith(k, <<"-", "-">>)))
               |-> Replace(SelectSeq(Split(group2),
                                     LAMBDA k : StartsWith(k, <<"-", "-">>))[i],
                           <<"-", "-">>, <<>>)],
            <<",", " ">>)

\* the message for the three matches (<<>> for no match) and the exception
TranslatedMessage(exc, required, unrecognized, invalid, ts) ==
    IF exc = "SystemExit"
    THEN IF required # <<>> THEN Replace(required, <<" ", "-", "-">>, <<" ">>)
         ELSE IF unrecognized # <<>> THEN UnrecognizedMessage(unrecognized)
         ELSE UnknownError(ts)
    ELSE IF exc = "ArgumentError" /\ invalid # <<>>
         THEN Replace(invalid, <<"-", "-">>, <<>>) \o <<" ", "type">>
    ELSE UnknownError(ts)

translate_error(failure, ts) ==
    TranslatedMessage(failure.exc, ArgumentsRequiredMatch(failure.text),
                      UnrecognizedArgumentsMatch(failure.text),
                      InvalidValueMatch(failure.text), ts)

(***************************************************************************)
(* ArgumentHandler.parse_args                                              *)
(***************************************************************************)

\* lines 193-199: "--key" and json.dumps(val) for every item of the body
RECURSIVE JsonArgStrings(_)
JsonArgStrings(items) ==
    IF items = <<>> THEN <<>>
    ELSE <<Flag(items[1].key), json_dumps(items[1].val)>> \o JsonArgStrings(Tail(items))

\* lines 202-204: "--key" and every value of the key, decoded
RECURSIVE QueryArgStrings(_)
QueryArgStrings(arguments) ==
    IF arguments = <<>> THEN <<>>
    ELSE <<Flag(arguments[1].key)>>
         \o [i \in 1..Len(arguments[1].vlist) |-> to_unicode(arguments[1].vlist[i]).val.v]
         \o QueryArgStrings(Tail(arguments))

\* some value of the query is no UTF-8: to_unicode raises
QueryUndecodable(arguments) ==
    \E i \in 1..Len(arguments) : \E j \in 1..Len(arguments[i].vlist) :
        to_unicode(arguments[i].vlist[j]).exc # "none"

\* lines 213-220: the namespace, or argparse's failure translated into a 400
NamespaceOr400(r, ts) ==
    IF r.exc = "none" THEN Namespace(r.ns)
    ELSE HTTPError(400, translate_error(r, ts))

\* lines 211-220
ParseArgStrings(parser, arg_strings, ts, nonstr) ==
    NamespaceOr400(argparse_parse_args(parser, arg_strings, nonstr), ts)

\* lines 42-48, _parse_json_body_arguments: what parse_args does not do, a
\* body that is no dict read as the empty dict
parse_json_body_arguments(loaded, parser, ts, nonstr) ==
    IF loaded.exc = "JSONDecodeError"
    THEN HTTPError(400, <<"requests body is not JSON-encoded">>)
    ELSE IF loaded.exc # "none" THEN Raised("parse_args", loaded.exc)
    ELSE IF loaded.val.t # "dict"
    THEN ParseArgStrings(parser, <<>>, ts, nonstr)
    ELSE ParseArgStrings(parser, JsonArgStrings(loaded.val.v), ts, nonstr)

\* lines 182-199: the body must be JSON, and a dict
parse_json_body(loaded, parser, ts, nonstr) ==
    IF loaded.exc = "JSONDecodeError"
    THEN HTTPError(400, <<"requests body is not JSON-encoded">>)
    ELSE IF loaded.exc # "none" THEN Raised("parse_args", loaded.exc)
    ELSE IF loaded.val.t # "dict"
    THEN HTTPError(400, <<"JSON-encoded requests body must be a 'dict'">>)
    ELSE ParseArgStrings(parser, JsonArgStrings(loaded.val.v), ts, nonstr)

parse_args(source, req, parser, ts, nonstr) ==
    IF source = JSON_BODY_ARGUMENTS
    THEN parse_json_body(json_loads_body(req.body), parser, ts, nonstr)
    ELSE IF QueryUndecodable(req.arguments)
         THEN Raised("parse_args", "UnicodeDecodeError")
         ELSE ParseArgStrings(parser, QueryArgStrings(req.arguments), ts, nonstr)

\* one call of parse_args; ts is what time.time() returns should the
\* failure be an unknown one, nonstr the exception strtobool ends in when
\* handed a value that is no string
ParseArgs(ts, nonstr) ==
    /\ call' = [op |-> "parse_args", name |-> <<>>, kwargs |-> <<>>]
    /\ outcome' = parse_args(argument_source, request, argparser, ts, nonstr)
    /\ UNCHANGED <<argument_source, request, argparser>>
    /\ UNCHANGED client

(***************************************************************************)
(* Bounds and vocabulary.                                                  *)
(***************************************************************************)

MaxArgs  == 2    \* arguments registered on one handler
MaxPairs == 2    \* key=value pairs of a query string, items of a JSON body

reqd == <<"r", "e", "q", "d">>
req  == <<"r", "e", "q">>
foo  == <<"f", "o", "o">>
bar  == <<"b", "a", "r">>
xtra == <<"x", "t", "r", "a">>
hank == <<"h", "a", "n", "k">>

Timestamps  == {"1700000000.1", "1700000000.2"}
NonStrKinds == {"AttributeError", "ValueError"}

\* the sequences over S of length at most n
RECURSIVE SeqsUpTo(_, _)
SeqsUpTo(S, n) ==
    IF n = 0 THEN { <<>> }
    ELSE LET shorter == SeqsUpTo(S, n - 1)
         IN  shorter \cup { Append(q, x) : q \in shorter, x \in S }

\* the keys of a sequence of pairs, in first-seen order
RECURSIVE KeysOf(_)
KeysOf(pairs) ==
    IF pairs = <<>> THEN <<>>
    ELSE LET rest == KeysOf(SubSeq(pairs, 1, Len(pairs) - 1))
             k    == pairs[Len(pairs)][1]
         IN  IF k \in Range(rest) THEN rest ELSE Append(rest, k)

ValuesOf(pairs, k) ==
    LET mine == SelectSeq(pairs, LAMBDA p : p[1] = k)
    IN  [i \in 1..Len(mine) |-> mine[i][2]]

\* tornado's request.arguments for the query string key1=value1&key2=value2...
QueryArguments(pairs) ==
    LET keys == KeysOf(pairs)
    IN  [i \in 1..Len(keys) |-> [key |-> keys[i], vlist |-> ValuesOf(pairs, keys[i])]]

\* the JSON object with these items (an object holds a key once)
JsonObject(pairs) ==
    PyDict([i \in 1..Len(pairs) |-> [key |-> pairs[i][1], val |-> pairs[i][2]]])

DistinctKeys(pairs) ==
    \A i, j \in 1..Len(pairs) : i # j => pairs[i][1] # pairs[j][1]

EmptyBody == [kind |-> "not_json", value |-> PyNone]

QueryRequest(pairs) == [arguments |-> QueryArguments(pairs), body |-> EmptyBody]
BodyRequest(body)   == [arguments |-> <<>>, body |-> body]

\* the requests of a vocabulary: query strings of at most MaxPairs of the
\* pairs QueryPairs, and bodies that are no UTF-8, no JSON, no object, or
\* an object of at most MaxPairs of the items JsonPairs
RequestsOf(source, QueryPairs, JsonPairs) ==
    IF source = QUERY_ARGUMENTS
    THEN { QueryRequest(pairs) : pairs \in SeqsUpTo(QueryPairs, MaxPairs) }
    ELSE { BodyRequest([kind |-> k, value |-> PyNone]) : k \in {"invalid_utf8", "not_json"} }
         \cup { BodyRequest([kind |-> "json", value |-> v]) :
                   v \in {PyInt(<<"3">>), PyList(<<PyInt(<<"1">>)>>)} }
         \cup { BodyRequest([kind |-> "json", value |-> JsonObject(pairs)]) :
                   pairs \in { q \in SeqsUpTo(JsonPairs, MaxPairs) : DistinctKeys(q) } }

\* a handler just constructed, on a request of the vocabulary
InitOf(QueryPairs, JsonPairs) ==
    /\ argument_source \in {QUERY_ARGUMENTS, JSON_BODY_ARGUMENTS}
    /\ request \in RequestsOf(argument_source, QueryPairs, JsonPairs)
    /\ argparser = NewParser
    /\ call = [op |-> "none", name |-> <<>>, kwargs |-> <<>>]
    /\ outcome = NoOutcome
    /\ NoClient

\* the calls a server makes on the handler: add_argument with a name and
\* kwargs of Registrations, and parse_args
NextOf(Registrations) ==
    \/ \E r \in Registrations :
          /\ Len(argparser) - 1 < MaxArgs
          /\ AddArgument(r[1], r[2])
    \/ \E ts \in Timestamps, nonstr \in NonStrKinds : ParseArgs(ts, nonstr)

(***************************************************************************)
(* Spec: registration of several arguments, and their resolution against   *)
(* requests that carry registered, abbreviated and unregistered names.     *)
(***************************************************************************)

Registrations ==
    {reqd, foo} \X { <<>>,
                     [type |-> "int"],
                     [default |-> PyInt(<<"5">>)],
                     [required |-> FALSE] }

QueryPairs ==
    ({reqd, req, foo, xtra} \X { <<"2">>, <<"-", "-", "v">> })
    \cup { <<foo, hank>>, <<xtra, <<"\\xff">>>> }

JsonPairs ==
    ({reqd, req, foo, xtra} \X { PyInt(<<"2">>) })
    \cup { <<foo, PyStr(hank)>>, <<xtra, PyStr(<<"a", " ", "-", "-", "b">>)>> }

Init == InitOf(QueryPairs, JsonPairs)
Next == NextOf(Registrations)
Spec == Init /\ [][Next]_vars

(***************************************************************************)
(* CoerceSpec: one argument foo registered with a type, a default or       *)
(* nargs='*', beside an argument bar with a default, and the values that   *)
(* the conversions take or refuse.                                         *)
(***************************************************************************)

CoerceRegistrations ==
    ({foo} \X { [type |-> "int"],
                [type |-> "bool"],
                [type |-> "custom_type"],
                [default |-> PyNone],
                [default |-> PyStr(<<"1", "0", "0">>)],
                [default |-> PyStr(hank), type |-> "str"],
                [default |-> PyFloat(<<"5", "0", ".", "5">>)],
                [nargs |-> "*"],
                [nargs |-> "*", type |-> "int"] })
    \cup { <<bar, [default |-> PyInt(<<"5">>)]>> }

CoerceStrings ==
    { <<"2">>, hank, <<>>, <<"i", "d", "k">>, <<"N", "o">>, <<"T", "r", "u", "e">>,
      <<"-", "x">> }

CoerceQueryPairs == ({foo} \X CoerceStrings) \cup { <<bar, <<"2">>>> }

CoerceJsonPairs ==
    ({foo} \X ({ PyStr(v) : v \in CoerceStrings }
               \cup { PyInt(<<"0">>), PyBool(FALSE), PyNone,
                      PyFloat(<<"-", "1", "e", "-", "0", "7">>) }))
    \cup { <<bar, PyInt(<<"2">>)>> }

InitCoerce == InitOf(CoerceQueryPairs, CoerceJsonPairs)
NextCoerce == NextOf(CoerceRegistrations)
CoerceSpec == InitCoerce /\ [][NextCoerce]_vars

(***************************************************************************)
(* What a state says about the last call: the request's names, and the     *)
(* registered arguments they leave missing or do not name.                 *)
(***************************************************************************)

ParseArgsCalled == call.op = "parse_args" /\ outcome.call = "parse_args"

\* the request offers arguments: a query string whose values decode, or a
\* body that is a JSON object
WellFormed ==
    IF argument_source = QUERY_ARGUMENTS
    THEN ~QueryUndecodable(request.arguments)
    ELSE request.body.kind = "json" /\ request.body.value.t = "dict"

\* the names the request carries, in first-seen order
RequestNames ==
    IF argument_source = QUERY_ARGUMENTS
    THEN [i \in 1..Len(request.arguments) |-> request.arguments[i].key]
    ELSE IF request.body.kind = "json" /\ request.body.value.t = "dict"
         THEN [i \in 1..Len(request.body.value.v) |-> request.body.value.v[i].key]
    ELSE <<>>

\* the arguments registered, in registration order
StoreActions == SelectSeq(argparser, LAMBDA a : a.kind = "store")

RegisteredNames == { StoreActions[i].dest : i \in 1..Len(StoreActions) }

NamesOf(actions) == [i \in 1..Len(actions) |-> actions[i].dest]

\* the required arguments with no raw occurrence, in registration order
MissingRequired ==
    NamesOf(SelectSeq(StoreActions,
                      LAMBDA a : a.required /\ a.dest \notin Range(RequestNames)))

\* the names of the request that were never registered, in first-seen order
Unregistered == SelectSeq(RequestNames, LAMBDA k : k \notin RegisteredNames)

\* the request is one occurrence of the name foo, with the raw value v
OnlyFoo(v) ==
    IF argument_source = QUERY_ARGUMENTS
    THEN request.arguments = <<[key |-> foo, vlist |-> <<v>>]>>
    ELSE /\ request.body.kind = "json"
         /\ request.body.value = PyDict(<<[key |-> foo, val |-> PyStr(v)]>>)

\* foo is the one argument registered
FooAlone == Len(argparser) = 2 /\ argparser[2].dest = foo

InvalidType(name) ==
    <<"argument", " ">> \o name \o <<":", " ", "invalid", " ", "type">>

(***************************************************************************)
(* The claims.                                                             *)
(***************************************************************************)

\* C1: when registered required arguments have no raw occurrence in the
\* request, parse_args fails with HTTP 400 and exactly the message 'the
\* following arguments are required: ' followed by all the missing names,
\* comma-separated, in registration order.
C1_MissingReported ==
    (ParseArgsCalled /\ WellFormed /\ MissingRequired # <<>>)
    => outcome = HTTPError(400, <<"the following arguments are required:", " ">>
                                \o Join(MissingRequired, <<",", " ">>))

\* C2: when no required argument is missing, parse_args fails with HTTP 400
\* and exactly the message 'unrecognized arguments: ' followed by every
\* name of the request that was never registered, names only, in first-seen
\* order; so no unregistered name is accepted as a registered one.
C2_UnrecognizedReported ==
    (ParseArgsCalled /\ WellFormed /\ MissingRequired = <<>> /\ Unregistered # <<>>)
    => outcome = HTTPError(400, <<"unrecognized arguments:", " ">>
                                \o Join(Unregistered, <<",", " ">>))

\* C3: a request that lacks a required argument and carries an unregistered
\* name gets the missing-argument failure, not the unrecognized-argument one.
C3_MissingBeforeUnrecognized ==
    (ParseArgsCalled /\ WellFormed /\ MissingRequired # <<>> /\ Unregistered # <<>>)
    => /\ outcome.kind = "HTTPError"
       /\ outcome.status_code = 400
       /\ outcome.reason # <<>>
       /\ outcome.reason[1] = "the following arguments are required:"

\* C4: for an argument registered with a type and a raw value on which the
\* conversion raises ValueError or TypeError, parse_args fails with HTTP 400
\* and exactly the message 'argument <name>: invalid type'.
C4_InvalidType ==
    \A v \in CoerceStrings :
        (/\ ParseArgsCalled /\ FooAlone /\ OnlyFoo(v)
         /\ argparser[2].nargs = "None"
         /\ argparser[2].type.typ # "None"
         /\ CallType(argparser[2].type,
                     IF argument_source = QUERY_ARGUMENTS THEN v ELSE json_dumps(PyStr(v)),
                     "ValueError").exc \in {"ValueError", "TypeError"})
        => outcome = HTTPError(400, InvalidType(foo))

\* C5: with the JSON-body source, a body whose top-level JSON value is no
\* object makes parse_args fail with HTTP 400 "JSON-encoded requests body
\* must be a 'dict'", whatever is registered: no message about a missing,
\* unrecognized or ill-typed argument comes for such a body.
C5_BodyMustBeDict ==
    (/\ ParseArgsCalled
     /\ argument_source = JSON_BODY_ARGUMENTS
     /\ request.body.kind = "json"
     /\ request.body.value.t # "dict")
    => outcome = HTTPError(400, <<"JSON-encoded requests body must be a 'dict'">>)

\* C5 happens: a list as the body, on a handler with a required argument
C5_Witness ==
    /\ ParseArgsCalled
    /\ argument_source = JSON_BODY_ARGUMENTS
    /\ request.body.kind = "json"
    /\ request.body.value.t = "list"
    /\ \E i \in 1..Len(StoreActions) : StoreActions[i].required
    /\ outcome = HTTPError(400, <<"JSON-encoded requests body must be a 'dict'">>)

\* C6: every registered argument that has a default and no raw occurrence
\* in the request comes back from parse_args with the registered default,
\* whatever the default (None, a string, a number) and with or without a type.
C6_DefaultReturned ==
    (ParseArgsCalled /\ WellFormed /\ outcome.kind = "Namespace")
    => \A i \in 1..Len(StoreActions) :
          (~StoreActions[i].required /\ StoreActions[i].dest \notin Range(RequestNames)
           /\ \A k \in Range(RequestNames) : k \in RegisteredNames)
          => outcome.ns[StoreActions[i].dest] = StoreActions[i].default

\* the values the permissive reading of bool takes for false
C7_FalseValues == { <<"f", "a", "l", "s", "e">>, <<"0">>, <<"n", "o">>, <<>> }

C7_TrueValues ==
    { <<"y">>, <<"y", "e", "s">>, <<"t">>, <<"t", "r", "u", "e">>, <<"o", "n">>, <<"1">> }

C7_StrictFalseValues ==
    { <<"n">>, <<"n", "o">>, <<"f">>, <<"f", "a", "l", "s", "e">>, <<"o", "f", "f">>,
      <<"0">> }

C8_Repeatable ==
    (/\ ParseArgsCalled
     /\ argument_source = QUERY_ARGUMENTS
     /\ FooAlone
     /\ argparser[2].nargs = "*"
     /\ Len(request.arguments) = 1
     /\ request.arguments[1].key = foo
     /\ \A i \in 1..Len(request.arguments[1].vlist) :
           CallType(argparser[2].type, request.arguments[1].vlist[i],
                    "ValueError").exc = "none")
    => outcome = Namespace(foo :> PyList(
           [i \in 1..Len(request.arguments[1].vlist) |->
               CallType(argparser[2].type, request.arguments[1].vlist[i],
                        "ValueError").val]))

\* add_argument was just called without a default and with required=False
RefusedCall(c) ==
    /\ c.op = "add_argument"
    /\ ~Has(c.kwargs, "default")
    /\ Has(c.kwargs, "required")
    /\ c.kwargs.required = FALSE

\* C9: add_argument with no default and required=False fails with a
\* ValueError in the call itself and leaves the handler's arguments as they
\* were; add_argument with neither default nor required, for a name not yet
\* registered, adds the argument as a required one.
C9_Registration ==
    [][ /\ RefusedCall(call')
           => /\ outcome' = Raised("add_argument", "ValueError")
              /\ argparser' = argparser
        /\ (/\ call'.op = "add_argument"
            /\ ~Has(call'.kwargs, "default")
            /\ ~Has(call'.kwargs, "required")
            /\ call'.name \notin RegisteredNames)
           => /\ outcome' = Registered
              /\ Len(argparser') = Len(argparser) + 1
              /\ SubSeq(argparser', 1, Len(argparser)) = argparser
              /\ argparser'[Len(argparser')].dest = call'.name
              /\ argparser'[Len(argparser')].required ]_vars

\* C9 happens: a refused registration, on a handler that holds an argument
\* registered with neither default nor required
C9_Witness ==
    /\ RefusedCall(call)
    /\ outcome = Raised("add_argument", "ValueError")
    /\ Len(StoreActions) = 1
    /\ StoreActions[1].required

\* C10: however the request's content makes parse_args fail, the failure is
\* an HTTP error with status 400: never another status, never an exception
\* that is no HTTP error.
C10_Only400 ==
    outcome.call = "parse_args"
    => \/ outcome.kind = "Namespace"
       \/ outcome.kind = "HTTPError" /\ outcome.status_code = 400

\* the reason is one of the three messages _translate_error knows
KnownShape(reason) ==
    /\ reason # <<>>
    /\ \/ reason[1] = "the following arguments are required:"
       \/ reason[1] = "unrecognized arguments:"
       \/ /\ reason[1] = "argument"
          /\ Len(reason) > 4
          /\ SubSeq(reason, Len(reason) - 2, Len(reason)) = <<"invalid", " ", "type">>

\* parse_args failed in the parser, on a request it could read
ParserFailed == ParseArgsCalled /\ WellFormed /\ outcome.kind = "HTTPError"

IntChoices == <<PyInt(<<"0">>), PyInt(<<"1">>), PyInt(<<"2">>)>>
StrChoices == <<PyStr(<<"a">>), PyStr(<<"b">>)>>

\* the text  x value: 'y
QuotedValue == <<"x", " ", "value:", " ", "'", "y">>

ChoiceRegistrations ==
    {foo} \X { [type |-> "int", choices |-> IntChoices],
               [choices |-> StrChoices],
               [type |-> "str", choices |-> StrChoices] }

ChoiceStrings == { <<"2">>, <<"3">>, <<"a">>, <<"c">>, hank, QuotedValue }

ChoiceQueryPairs == {foo} \X ChoiceStrings

ChoiceJsonPairs ==
    {foo} \X ({ PyStr(v) : v \in ChoiceStrings } \cup { PyInt(<<"2">>), PyInt(<<"3">>) })

InitChoice == InitOf(ChoiceQueryPairs, ChoiceJsonPairs)
NextChoice == NextOf(ChoiceRegistrations)
ChoiceSpec == InitChoice /\ [][NextChoice]_vars

\* the request is one occurrence of the name foo
OneFoo ==
    IF argument_source = QUERY_ARGUMENTS
    THEN /\ Len(request.arguments) = 1
         /\ request.arguments[1].key = foo
         /\ Len(request.arguments[1].vlist) = 1
    ELSE /\ request.body.kind = "json"
         /\ request.body.value.t = "dict"
         /\ Len(request.body.value.v) = 1
         /\ request.body.value.v[1].key = foo

\* the argument string parse_args makes of that occurrence's raw value
FooArgString ==
    IF argument_source = QUERY_ARGUMENTS THEN request.arguments[1].vlist[1]
    ELSE json_dumps(request.body.value.v[1].val)

\* C12: for an argument registered with choices, a raw value that casts to
\* something that is none of the choices makes parse_args fail with HTTP
\* 400 and a message other than 'argument <name>: invalid type'; a raw
\* value that casts to one of the choices is accepted as that value.
C12_Choices ==
    (/\ ParseArgsCalled /\ FooAlone /\ OneFoo
     /\ argparser[2].choices.given
     /\ CallType(argparser[2].type, FooArgString, "ValueError").exc = "none")
    => IF \E i \in 1..Len(argparser[2].choices.of) :
             argparser[2].choices.of[i]
                = CallType(argparser[2].type, FooArgString, "ValueError").val
       THEN outcome = Namespace(foo :>
                CallType(argparser[2].type, FooArgString, "ValueError").val)
       ELSE /\ outcome.kind = "HTTPError"
            /\ outcome.status_code = 400
            /\ outcome.reason # InvalidType(foo)

\* the raw value of the one occurrence of foo
FooRawValue ==
    IF argument_source = QUERY_ARGUMENTS THEN PyStr(request.arguments[1].vlist[1])
    ELSE request.body.value.v[1].val

\* C13: an argument registered with no type and present once in the
\* request comes back from parse_args as its raw value, unchanged: the raw
\* string with the query source, the original JSON value with the JSON-body
\* source.
C13_UntypedUnchanged ==
    (/\ ParseArgsCalled /\ FooAlone /\ OneFoo
     /\ argparser[2].type.typ = "None"
     /\ argparser[2].nargs = "None"
     /\ ~argparser[2].choices.given)
    => outcome = Namespace(foo :> FooRawValue)

\* C14: with the query source, a key of a non-repeatable argument that
\* occurs more than once makes parse_args succeed, and the argument comes
\* back as the sequence of all its values, converted, in request order.
C14_DuplicatesCollected ==
    (/\ ParseArgsCalled
     /\ argument_source = QUERY_ARGUMENTS
     /\ FooAlone
     /\ argparser[2].nargs = "None"
     /\ Len(request.arguments) = 1
     /\ request.arguments[1].key = foo
     /\ Len(request.arguments[1].vlist) > 1
     /\ \A i \in 1..Len(request.arguments[1].vlist) :
           /\ Head(request.arguments[1].vlist[i] \o <<"x">>) # "-"
           /\ CallType(argparser[2].type, request.arguments[1].vlist[i],
                       "ValueError").exc = "none")
    => outcome = Namespace(foo :> PyList(
           [i \in 1..Len(request.arguments[1].vlist) |->
               CallType(argparser[2].type, request.arguments[1].vlist[i],
                        "ValueError").val]))

(***************************************************************************)
(* The REST client.  A session is a record of its kind (sync or async) and *)
(* its headers; sessions holds the session objects by identity, so that    *)
(* self.session is an index into it and a header assignment changes the    *)
(* object whoever holds it.                                                *)
(***************************************************************************)

PyBytes(s) == [t |-> "bytes", v |-> s]

\* bool(x) for None, str and bytes
Truthy(x) == x.t # "None" /\ x.v # <<>>

to_str(s) == IF s.t = "bytes" THEN PyStr(s.v) ELSE s

\* 'Bearer '+to_str(tok)
Bearer(tok) == <<"Bearer", " ">> \o to_str(tok).v

\* the session open() makes: Session or AsyncSession, with its headers
NewSession(sync, tok) ==
    [sync    |-> sync,
     headers |-> IF Truthy(tok)
                 THEN ("Content-Type" :> <<"application/json">>)
                          @@ ("Authorization" :> Bearer(tok))
                 ELSE ("Content-Type" :> <<"application/json">>)]

\* RestClient.open(sync): the sessions and self.session after it
open(ss, sync, tok) ==
    [sessions |-> Append(ss, NewSession(sync, tok)), session |-> Len(ss) + 1]

\* self.session.headers['Authorization'] = value
SetAuthorization(ss, s, value) ==
    [ss EXCEPT ![s].headers =
        [h \in DOMAIN ss[s].headers \cup {"Authorization"} |->
            IF h = "Authorization" THEN value ELSE ss[s].headers[h]]]

(***************************************************************************)
(* The token endpoint's answer to requests.post: an error (no connection,  *)
(* an error status, a body that is no JSON), or a JSON body: an object     *)
(* with or without the keys access_token and refresh_token (Absent), or a  *)
(* JSON list.                                                              *)
(***************************************************************************)

Absent == [t |-> "absent", v |-> <<>>]
NoPost == [kind |-> "none",  access_token |-> Absent, refresh_token |-> Absent]
PostError == [NoPost EXCEPT !.kind = "error"]
PostList  == [NoPost EXCEPT !.kind = "list"]
PostDict(at, rt) == [kind |-> "dict", access_token |-> at, refresh_token |-> rt]

\* how _get_token ends: the two tokens after it, what auth.validate said,
\* the POSTs made and the answer to the last one
TokenResult(at, rt, result, validated, posts, post) ==
    [access_token |-> at, refresh_token |-> rt, result |-> result,
     validated |-> validated, posts |-> posts, post |-> post]

\* a token endpoint that is asked again after an error
refresh_again(at, rt, validated, post) ==
    IF post.kind = "error"
    THEN TokenResult(at, PyNone, "No token available", validated, 2, post)
    ELSE IF post.kind = "list"
    THEN TokenResult(at, rt, "TypeError", validated, 1, post)
    ELSE IF post.access_token = Absent
    THEN TokenResult(at, rt, "KeyError", validated, 1, post)
    ELSE TokenResult(post.access_token,
                     IF post.refresh_token # Absent THEN post.refresh_token
                                                    ELSE PyNone,
                     "returned", validated, 1, post)

\* _get_token with a refresh token: the POST and what follows it
refresh(at, rt, validated, post) ==
    IF post.kind = "error"
    THEN TokenResult(at, PyNone, "No token available", validated, 1, post)
    ELSE IF post.kind = "list"
    THEN TokenResult(at, rt, "TypeError", validated, 1, post)
    ELSE IF post.access_token = Absent
    THEN TokenResult(at, rt, "KeyError", validated, 1, post)
    ELSE TokenResult(post.access_token,
                     IF post.refresh_token # Absent THEN post.refresh_token
                                                    ELSE PyNone,
                     "returned", validated, 1, post)

\* _get_token without a valid access token
get_token_expired(at, rt, validated, post) ==
    IF Truthy(rt)
    THEN refresh(at, rt, validated, post)
    ELSE TokenResult(at, rt, "No token available", validated, 0, NoPost)

\* OpenIDRestClient._get_token(): valid is what auth.validate does with the
\* access token (returns, or raises), post the token endpoint's answer
get_token(at, rt, valid, post) ==
    IF Truthy(at)
    THEN IF valid
         THEN TokenResult(at, rt, "returned", "valid", 0, NoPost)
         ELSE get_token_expired(PyNone, rt, "expired", post)
    ELSE get_token_expired(at, rt, "skipped", post)

\* RestClient._prepare has no token to get
NoToken == TokenResult(PyNone, PyNone, "returned", "skipped", 0, NoPost)

\* the _get_token of the client's _prepare
prepare_token(valid, post) ==
    IF cls = "OpenIDRestClient"
    THEN get_token(access_token, refresh_token, valid, post)
    ELSE NoToken

\* the sessions after _prepare
prepare_sessions(g) ==
    IF cls = "OpenIDRestClient" /\ g.result = "returned" /\ Truthy(g.access_token)
    THEN SetAuthorization(sessions, session, Bearer(g.access_token))
    ELSE sessions

\* how a request ends, by what the server does: the decoded body, or the
\* exception of raise_for_status, of the transport, or of json_decode
Responses == {"ok", "HTTPError", "ConnectionError", "JSONDecodeError"}
RequestResult(resp) == IF resp = "ok" THEN "returned" ELSE resp

\* a request as it is sent: the session it goes out on, that session's
\* headers and the client's access token at that moment
Sent(ss, s, at) == [session |-> s, sync |-> ss[s].sync, headers |-> ss[s].headers,
                    access_token |-> at]

Called(op, g, result, sent) ==
    [op |-> op, result |-> result, validated |-> g.validated, posts |-> g.posts,
     post |-> g.post, sent |-> sent]

\* client._get_token()
GetToken(valid, post) ==
    /\ cls = "OpenIDRestClient"
    /\ LET g == get_token(access_token, refresh_token, valid, post)
       IN  /\ access_token' = g.access_token
           /\ refresh_token' = g.refresh_token
           /\ last' = Called("_get_token", g, g.result, <<>>)
    /\ UNCHANGED <<cls, token, sessions, session>>
    /\ UNCHANGED handler

\* client.open(sync)
Open(sync) ==
    /\ cls # "none"
    /\ sessions' = open(sessions, sync, token).sessions
    /\ session' = open(sessions, sync, token).session
    /\ last' = [NoCall EXCEPT !.op = "open", !.result = "returned"]
    /\ UNCHANGED <<cls, token, access_token, refresh_token>>
    /\ UNCHANGED handler

\* what a call that went through _prepare leaves of the tokens
Prepared(g) ==
    /\ access_token' = IF cls = "OpenIDRestClient" THEN g.access_token ELSE access_token
    /\ refresh_token' = IF cls = "OpenIDRestClient" THEN g.refresh_token ELSE refresh_token

\* await client.request(method, path, args)
Request(valid, post, resp) ==
    /\ cls # "none"
    /\ LET g == prepare_token(valid, post)
       IN  /\ Prepared(g)
           /\ sessions' = prepare_sessions(g)
           /\ last' = IF g.result = "returned"
                      THEN Called("request", g, RequestResult(resp),
                                  <<Sent(prepare_sessions(g), session, g.access_token)>>)
                      ELSE Called("request", g, g.result, <<>>)
    /\ UNCHANGED <<cls, token, session>>
    /\ UNCHANGED handler

\* a request_seq that leaves the session it opened installed
session_left_open(s, opened) == opened

\* request_seq's finally: self.session = s
restore_session(s, opened) == s

\* client.request_seq(method, path, args)
RequestSeq(valid, post, resp) ==
    /\ cls # "none"
    /\ LET g == prepare_token(valid, post)
           o == open(prepare_sessions(g), TRUE, token)
       IN  /\ Prepared(g)
           /\ IF g.result = "returned"
              THEN /\ sessions' = o.sessions
                   /\ session' = restore_session(session, o.session)
                   /\ last' = Called("request_seq", g, RequestResult(resp),
                                     <<Sent(o.sessions, o.session, g.access_token)>>)
              ELSE /\ sessions' = sessions
                   /\ session' = session
                   /\ last' = Called("request_seq", g, g.result, <<>>)
    /\ UNCHANGED <<cls, token>>
    /\ UNCHANGED handler

(***************************************************************************)
(* ClientSpec: a client after its constructor returned, and the calls made *)
(* on it.                                                                  *)
(***************************************************************************)

MaxSessions == 3

T1 == <<"t", "1">>
A1 == PyStr(<<"a", "1">>)
A2 == PyStr(<<"a", "2">>)
R1 == PyStr(<<"r", "1">>)
R2 == PyStr(<<"r", "2">>)

Tokens == {PyNone, PyBytes(T1)}
RefreshTokens == {PyNone, PyStr(<<>>), R1}

TokenResponses ==
    {PostError, PostList}
    \cup { PostDict(at, rt) : at \in {Absent, PyNone, A1, A2}, rt \in {Absent, R2} }
    \cup { PostDict(PyStr(<<>>), PyStr(<<>>)) }

\* no handler: the handler variables of a program that only has a client
NoHandler ==
    /\ argument_source = QUERY_ARGUMENTS
    /\ request = QueryRequest(<<>>)
    /\ argparser = NewParser
    /\ call = [op |-> "none", name |-> <<>>, kwargs |-> <<>>]
    /\ outcome = NoOutcome

\* RestClient.__init__(address, token)
InitRestClient ==
    /\ cls = "RestClient"
    /\ token \in Tokens
    /\ sessions = open(<<>>, FALSE, token).sessions
    /\ session = open(<<>>, FALSE, token).session
    /\ access_token = PyNone
    /\ refresh_token = PyNone
    /\ last = [NoCall EXCEPT !.op = "__init__", !.result = "returned"]

\* OpenIDRestClient.__init__(address, token_url, refresh_token, ...), when
\* it returns: its _get_token raised nothing
InitOpenIDRestClient ==
    /\ cls = "OpenIDRestClient"
    /\ token \in Tokens
    /\ sessions = open(<<>>, FALSE, token).sessions
    /\ session = open(<<>>, FALSE, token).session
    /\ \E rt \in RefreshTokens, post \in TokenResponses :
          LET g == get_token(PyNone, rt, FALSE, post)
          IN  /\ g.result = "returned"
              /\ access_token = g.access_token
              /\ refresh_token = g.refresh_token
              /\ last = Called("__init__", g, "returned", <<>>)

InitClient ==
    /\ NoHandler
    /\ InitRestClient \/ InitOpenIDRestClient

NextClient ==
    \/ \E valid \in BOOLEAN, post \in TokenResponses : GetToken(valid, post)
    \/ \E sync \in BOOLEAN :
          /\ Len(sessions) < MaxSessions
          /\ Open(sync)
    \/ \E valid \in BOOLEAN, post \in TokenResponses, resp \in Responses :
          Request(valid, post, resp)
    \/ \E valid \in BOOLEAN, post \in TokenResponses, resp \in Responses :
          /\ Len(sessions) < MaxSessions
          /\ RequestSeq(valid, post, resp)

ClientSpec == InitClient /\ [][NextClient]_vars

(***************************************************************************)
(* Claims about the client.                                                *)
(***************************************************************************)

\* the calls that run OpenIDRestClient._get_token once
TokenCalls == {"__init__", "_get_token", "request", "request_seq"}
GotToken == cls = "OpenIDRestClient" /\ last.op \in TokenCalls

\* C15: one _get_token makes no POST to the token endpoint when the cached
\* access token validates (and keeps that token), at most one POST
\* otherwise, and none when there is no refresh token; when the POST is
\* answered with an access token, that token is the cached one afterwards.
C15_SingleFetch ==
    /\ [](GotToken =>
            /\ last.posts \in {0, 1}
            /\ last.validated = "valid" => last.posts = 0
            /\ last.post.kind = "dict" /\ last.post.access_token # Absent
                  => access_token = last.post.access_token)
    /\ [][GotToken' =>
            /\ last'.validated = "valid" => access_token' = access_token
            /\ ~Truthy(refresh_token) => last'.posts = 0
            /\ last'.posts = 1 => last'.validated # "valid" /\ Truthy(refresh_token)]_vars

\* an expired access token was replaced by the one the token endpoint sent
C15_Witness ==
    /\ GotToken
    /\ last.op = "_get_token"
    /\ last.validated = "expired"
    /\ last.posts = 1
    /\ last.result = "returned"
    /\ access_token = A2
    /\ last.post.access_token = A2

\* how the call's _get_token ended
TokenReturned == GotToken /\ last.result \notin {"No token available", "KeyError", "TypeError"}
TokenRaised   == GotToken /\ last.result = "No token available"
BothNull      == access_token = PyNone /\ refresh_token = PyNone

\* C16: whenever _get_token returned, access_token is not None; whenever
\* it raised 'No token available', access_token and refresh_token are both
\* None; and from then on both stay None and every call that runs
\* _get_token raises 'No token available' with no POST to the token
\* endpoint.
C16_TokenOutcomes ==
    /\ [](TokenReturned => access_token # PyNone)
    /\ [](TokenRaised => BothNull)
    /\ [][cls = "OpenIDRestClient" /\ BothNull
             => /\ BothNull'
                /\ GotToken' => TokenRaised' /\ last'.posts = 0]_vars

\* C17: every request an OpenIDRestClient sends, by request or by
\* request_seq, goes out on a session whose Authorization header is
\* 'Bearer ' followed by the client's access token of that moment.
C17_BearerHeader ==
    cls = "OpenIDRestClient" =>
        \A i \in DOMAIN last.sent :
            /\ last.sent[i].access_token.t = "str"
            /\ "Authorization" \in DOMAIN last.sent[i].headers
            /\ last.sent[i].headers["Authorization"] = Bearer(last.sent[i].access_token)

\* C18: request_seq leaves self.session the session that was installed
\* before the call, however the call ends: with the decoded response, with
\* the HTTPError of an error status, with an exception of the transport or
\* with one of the JSON decoding; the session itself is left as _prepare
\* left it.
C18_SessionRestored ==
    [][last'.op = "request_seq"
          => /\ session' = session
             /\ sessions'[session'].sync = sessions[session].sync
             /\ \A i \in DOMAIN last'.sent : last'.sent[i].session # session']_vars

\* request_seq sent its request on a session of its own and ended with an
\* exception of the JSON decoding, after an earlier request_seq
C18_Witness ==
    /\ last.op = "request_seq"
    /\ last.result = "JSONDecodeError"
    /\ Len(last.sent) = 1
    /\ last.sent[1].session = 3
    /\ last.sent[1].sync
    /\ session = 1
    /\ ~sessions[session].sync

====
